---- MODULE Spec2Model ----
(***************************************************************************)
(* Hierarchical peak picking: the building-block sequence hierarchy        *)
(* (peak_picking/hierarchy.py) and the level-by-level orchestration of     *)
(* baseline correction, peak detection and peak selection                  *)
(* (peak_pickers/hierarchical_sgppm.py, peak_picking/sgppm_hierarchical.py)*)
(***************************************************************************)
EXTENDS Integers, Sequences, FiniteSets, TLC

(* ---- bounds of the model ---- *)
SeqLen == 2      \* length of the sequences handed to the hierarchy operations
MaxAdds == 2     \* add_sequence / add_sequences calls in one hierarchy run
MaxBatch == 3    \* chromatograms in one batch handed to pick_peaks

NullElement == "Null"
Blocks == {"X", "Y"}
NoSeq == <<>>   \* "no sequence yet"

VARIABLES
  sequence_hierarchy,  \* Hierarchy object: levels, descendants, ancestors
  adds,                \* number of add calls made on the hierarchy so far
  generated,           \* last list returned by generate_all_descendants
  gen_input,           \* the sequence that list was generated from
  variant,             \* which hierarchical picker runs the batch
  chroms,              \* sequence_to_chrom: the batch, keyed by sequence
  base_sequence,       \* base sequence chosen by pick_peaks
  elution_times,       \* dict sequence -> picked time
  peak_intensities,    \* dict sequence -> picked height
  level,               \* loop variable of pick_peaks
  pc,                  \* position inside pick_peaks / _process_level
  results,             \* sequences of the chromatograms collected in results
  analyzer,            \* which PeakAnalyzer analyses the trace
  trace,               \* the chromatogram under analysis: x, y_corrected, peaks
  search_indices,      \* find_peaks indices not yet analysed, ascending
  analysis_status,     \* "running", "raised" ("idle" outside peak analysis)
  corrector,           \* which SWM implementation corrects the signal
  window_length,       \* its window_length
  signal,              \* the chromatogram handed to the corrector
  correction,          \* what the last correction returned
  correction_status,   \* "new", "returned", "raised", "sliced" ("idle")
  smoother,            \* which AALS implementation corrects the signal
  aals,                \* its input, weights w, estimate z and loop counter
  aals_status,         \* "running", "returned", an exception name ("idle")
  chromatogram_class,  \* which Chromatogram class the object is of
  chromatogram,        \* the Chromatogram object: trace, peaks, picked_peak
  detectable,          \* indices find_peaks returns for this trace and config
  first_detection,     \* chromatogram.peaks as the first detector run left it
  detector_status,     \* "new", "detected", "redetected", ... ("idle")
  block_class,         \* which BuildingBlock class the blocks are instances of
  blocks,              \* two BuildingBlock objects
  instances,           \* the _instance attribute of each cache class
  lock,                \* CacheSingleton._lock: the thread holding it, or 0
  stacks,              \* per thread, the frames of its running __new__ calls
  returned             \* per thread, the objects its calls returned

vars == <<sequence_hierarchy, adds, generated, gen_input, variant, chroms,
          base_sequence, elution_times, peak_intensities, level, pc, results,
          analyzer, trace, search_indices, analysis_status,
          corrector, window_length, signal, correction, correction_status,
          smoother, aals, aals_status,
          chromatogram_class, chromatogram, detectable, first_detection,
          detector_status,
          block_class, blocks,
          instances, lock, stacks, returned>>

analysis_vars == <<analyzer, trace, search_indices, analysis_status>>
baseline_vars == <<corrector, window_length, signal, correction,
                   correction_status>>

aals_vars == <<smoother, aals, aals_status>>
detector_vars == <<chromatogram_class, chromatogram, detectable,
                   first_detection, detector_status>>
block_vars == <<block_class, blocks>>
cache_vars == <<instances, lock, stacks, returned>>
component_vars == <<aals_vars, detector_vars, block_vars, cache_vars>>

hier_vars == <<sequence_hierarchy, adds, generated, gen_input>>
run_vars == <<variant, chroms, base_sequence, elution_times, peak_intensities,
              level, pc, results>>

(* ---- small helpers ---- *)
Max(S) == CHOOSE m \in S : \A e \in S : e <= m
Min(S) == CHOOSE m \in S : \A e \in S : m <= e

\* dict.get(key, default) / defaultdict read
Get(map, key, default) == IF key \in DOMAIN map THEN map[key] ELSE default

Put(map, key, val) ==
  [k \in DOMAIN map \cup {key} |-> IF k = key THEN val ELSE map[k]]

RECURSIVE Choose(_, _)
Choose(n, k) ==
  IF k = 0 THEN 1
  ELSE IF k > n THEN 0
  ELSE Choose(n - 1, k - 1) + Choose(n - 1, k)

(***************************************************************************)
(* Hierarchy (peak_picking/hierarchy.py)                                   *)
(***************************************************************************)
EmptyHierarchy == [levels |-> <<>>, descendants |-> <<>>, ancestors |-> <<>>]

count_non_null(sequence) ==
  Cardinality({i \in DOMAIN sequence : sequence[i] # NullElement})

\* variant without the `elem != null_element` test
get_direct_descendants_any_position(sequence) ==
  { [sequence EXCEPT ![i] = NullElement] : i \in DOMAIN sequence }

get_direct_descendants(sequence) ==
  { [sequence EXCEPT ![i] = NullElement] :
      i \in {j \in DOMAIN sequence : sequence[j] # NullElement} }

\* itertools.combinations(range(n), k): strictly increasing index tuples
Combinations(n, k) ==
  {c \in [1..k -> 1..n] : \A i, j \in 1..k : i < j => c[i] < c[j]}

non_null_elements(sequence) == SelectSeq(sequence, LAMBDA e : e # NullElement)

\* place_elements: positions are 1-based here (curr_pos, elem_idx are the
\* code's values plus one)
RECURSIVE place_elements(_, _, _, _)
place_elements(curr_pos, elem_idx, curr_sequence, selected_elements) ==
  IF elem_idx = Len(selected_elements) + 1
  THEN {curr_sequence}
  ELSE LET max_pos == Len(curr_sequence) - (Len(selected_elements) - elem_idx)
       IN UNION { place_elements(pos + 1, elem_idx + 1,
                     [curr_sequence EXCEPT ![pos] = selected_elements[elem_idx]],
                     selected_elements) : pos \in curr_pos..max_pos }

\* variant that keeps k of the non-null elements at their own positions
generate_descendants_in_place(sequence, k) ==
  LET positions == {i \in DOMAIN sequence : sequence[i] # NullElement}
  IN { [i \in DOMAIN sequence |-> IF i \in keep THEN sequence[i] ELSE NullElement]
       : keep \in {K \in SUBSET positions : Cardinality(K) = k} }

generate_descendants_with_k_elements(sequence, k) ==
  LET nn == non_null_elements(sequence)
      initial_sequence == [i \in 1..Len(sequence) |-> NullElement]
  IN IF k > Len(nn) THEN {}
     ELSE UNION { place_elements(1, 1, initial_sequence,
                                 [i \in 1..k |-> nn[c[i]]])
                  : c \in Combinations(Len(nn), k) }

\* The returned list, as the set of its entries <<k, s>>: s was appended by
\* the extend() of loop iteration k.  The list's length is the number of
\* entries; the same s under two k's is a duplicate in the list.
generate_all_descendants(sequence) ==
  UNION { { <<k, s>> : s \in generate_descendants_with_k_elements(sequence, k) }
          : k \in 0..count_non_null(sequence) }

\* variant that does not update the ancestor relationships
add_sequence_no_ancestors(h, sequence) ==
  LET lvl == count_non_null(sequence)
      direct_desc == get_direct_descendants(sequence)
  IN [levels |-> Put(h.levels, lvl, Get(h.levels, lvl, {}) \cup {sequence}),
      descendants |-> Put(h.descendants, sequence,
                          Get(h.descendants, sequence, {}) \cup direct_desc),
      ancestors |-> h.ancestors]

add_sequence(h, sequence) ==
  LET lvl == count_non_null(sequence)
      direct_desc == get_direct_descendants(sequence)
  IN [levels |-> Put(h.levels, lvl, Get(h.levels, lvl, {}) \cup {sequence}),
      descendants |-> Put(h.descendants, sequence,
                          Get(h.descendants, sequence, {}) \cup direct_desc),
      ancestors |-> [d \in DOMAIN h.ancestors \cup direct_desc |->
                       IF d \in direct_desc
                       THEN Get(h.ancestors, d, {}) \cup {sequence}
                       ELSE h.ancestors[d]]]

\* the sequences of a returned list, in some list order
RECURSIVE ListOf(_)
ListOf(entries) ==
  IF entries = {} THEN <<>>
  ELSE LET e == CHOOSE x \in entries : TRUE
       IN <<e[2]>> \o ListOf(entries \ {e})

RECURSIVE add_sequences(_, _)
add_sequences(h, sequences) ==
  IF sequences = <<>> THEN h
  ELSE add_sequences(add_sequence(h, Head(sequences)), Tail(sequences))

get_sequences_by_level(h, lvl) == Get(h.levels, lvl, {})
get_level(sequence) == count_non_null(sequence)
get_ancestors(h, sequence) == Get(h.ancestors, sequence, {})
get_descendants(h, sequence) == Get(h.descendants, sequence, {})

(***************************************************************************)
(* Hierarchy run: any sequence of add_sequence / add_sequences /           *)
(* generate_all_descendants calls on one Hierarchy object                  *)
(***************************************************************************)
AllSeqs == [1..SeqLen -> Blocks \cup {NullElement}]

IdleRun ==
  /\ variant = "none"
  /\ chroms = <<>>
  /\ base_sequence = NoSeq
  /\ elution_times = <<>>
  /\ peak_intensities = <<>>
  /\ level = 0
  /\ pc = "idle"
  /\ results = <<>>

IdleAnalysis ==
  /\ analyzer = "none"
  /\ trace = [x |-> <<>>, y_corrected |-> <<>>, peaks |-> <<>>]
  /\ search_indices = <<>>
  /\ analysis_status = "idle"

IdleBaseline ==
  /\ corrector = "none"
  /\ window_length = 0
  /\ signal = [x |-> <<>>, y |-> <<>>, non_finite |-> {}]
  /\ correction = [y_corrected |-> <<>>, not_a_number |-> {}]
  /\ correction_status = "idle"

NoAALS ==
  [y |-> <<>>, non_finite |-> {}, w |-> <<>>, z |-> <<>>, z_nan |-> FALSE,
   iteration |-> 0, singular |-> FALSE, intensity |-> <<>>, baseline |-> <<>>]

IdleAALS ==
  /\ smoother = "none"
  /\ aals = NoAALS
  /\ aals_status = "idle"

IdleDetector ==
  /\ chromatogram_class = "none"
  /\ chromatogram = [x |-> <<>>, y |-> <<>>, peaks |-> <<>>, picked_peak |-> {}]
  /\ detectable = {}
  /\ first_detection = <<>>
  /\ detector_status = "idle"

IdleBlocks ==
  /\ block_class = "none"
  /\ blocks = <<>>

IdleCache ==
  /\ instances = <<>>
  /\ lock = 0
  /\ stacks = <<>>
  /\ returned = <<>>

IdleComponents ==
  /\ IdleAALS
  /\ IdleDetector
  /\ IdleBlocks
  /\ IdleCache

HInit ==
  /\ IdleAnalysis
  /\ IdleBaseline
  /\ IdleComponents
  /\ sequence_hierarchy = EmptyHierarchy
  /\ adds = 0
  /\ generated = {}
  /\ gen_input = NoSeq
  /\ IdleRun

AddSequence ==
  /\ adds < MaxAdds
  /\ \E s \in AllSeqs :
       sequence_hierarchy' = add_sequence(sequence_hierarchy, s)
  /\ adds' = adds + 1
  /\ UNCHANGED <<generated, gen_input, run_vars>>
  /\ UNCHANGED <<analysis_vars, baseline_vars, component_vars>>

\* add_sequences on the list last returned by generate_all_descendants,
\* followed by its input (the use pick_peaks makes of it)
AddSequences ==
  /\ adds < MaxAdds
  /\ gen_input # NoSeq
  /\ sequence_hierarchy' =
       add_sequences(sequence_hierarchy, ListOf(generated) \o <<gen_input>>)
  /\ adds' = adds + 1
  /\ UNCHANGED <<generated, gen_input, run_vars>>
  /\ UNCHANGED <<analysis_vars, baseline_vars, component_vars>>

GenerateAllDescendants ==
  /\ \E s \in AllSeqs :
       /\ gen_input' = s
       /\ generated' = generate_all_descendants(s)
  /\ UNCHANGED <<sequence_hierarchy, adds, run_vars>>
  /\ UNCHANGED <<analysis_vars, baseline_vars, component_vars>>

HNext == AddSequence \/ AddSequences \/ GenerateAllDescendants

SpecHierarchy == HInit /\ [][HNext]_vars

(***************************************************************************)
(* Chromatograms and signal processing                                     *)
(***************************************************************************)
\* SGPPMConfig (peak_picking/sgppm_config.py); the relative heights are in
\* percent, peak_time_threshold in units of the time axis
Config == [height_threshold |-> 5,
           pick_rel_height_pct |-> 40,
           search_rel_height_pct |-> 1,
           peak_time_threshold |-> 1]

\* The sequences the batch is drawn from: the truncation lattice of (X, Y)
\* at its original positions, and (Y, Null), a shifted placement.
Library == { <<NullElement, NullElement>>,
             <<"X", NullElement>>,
             <<NullElement, "Y">>,
             <<"Y", NullElement>>,
             <<"X", "Y">> }

\* Raw intensity traces y (x is 1..Len(y)): one peak; one peak later; a low
\* peak before a high one; a high peak before a higher one; three peaks on
\* a raised baseline (4 below height_threshold, 6 below pick_rel_height of
\* the maximum); and the empty trace, on which baseline correction raises.
Traces == { <<0, 13, 0, 0, 0, 0, 0>>,
            <<0, 0, 13, 0, 0, 0, 0>>,
            <<0, 5, 0, 13, 0, 0, 0>>,
            <<0, 14, 0, 0, 0, 20, 0>>,
            <<1, 4, 1, 20, 1, 6, 1>>,
            <<>> }

TimeAxis(y) == [i \in 1..Len(y) |-> i]

\* Chromatogram() as constructed from a raw trace
NewChromatogram(y) ==
  [x |-> TimeAxis(y), y |-> y, y_corrected |-> <<>>, search_mask |-> <<>>,
   peaks |-> {}, picked_peak |-> {}, stage |-> "unprocessed"]

SeqMax(y) == Max({y[i] : i \in 1..Len(y)})

\* BaselineCorrector._sliding_window_minimum with window_length = 3 and
\* edge padding.  A sample above its window minimum keeps its raw value,
\* the others become y_diff / max(y_diff) = 0.
window_min(y, i) ==
  Min({ y[j] : j \in {IF i = 1 THEN 1 ELSE i - 1, i,
                      IF i = Len(y) THEN i ELSE i + 1} })

sliding_window_minimum_raises(y) == Len(y) = 0

sliding_window_minimum(y) ==
  [i \in 1..Len(y) |-> IF y[i] - window_min(y, i) # 0 THEN y[i] ELSE 0]

\* scipy.signal.find_peaks: midpoints of the plateaus that rise on the left
\* and fall on the right, never the first or the last sample
local_maxima(y) ==
  { (l + r) \div 2 :
      <<l, r>> \in { p \in (2..(Len(y) - 1)) \X (2..(Len(y) - 1)) :
                       /\ p[1] <= p[2]
                       /\ \A i \in p[1]..p[2] : y[i] = y[p[1]]
                       /\ y[p[1] - 1] < y[p[1]]
                       /\ y[p[2] + 1] < y[p[2]] } }

\* find_peaks(chrom.y_corrected, height = chrom.y.max() * search_rel_height)
search_peaks(chrom) ==
  { i \in local_maxima(chrom.y_corrected) :
      100 * chrom.y_corrected[i] >=
        SeqMax(chrom.y) * Config.search_rel_height_pct }

PeakAt(chrom, i) ==
  [index |-> i, time |-> chrom.x[i], height |-> chrom.y_corrected[i]]

\* np.searchsorted(chrom.x, min_time), as the number of samples before it
searchsorted(x, t) == Cardinality({i \in 1..Len(x) : x[i] < t})

(***************************************************************************)
(* Batch run: pick_peaks and _process_level                                *)
(* variant "masked": peak_picking/sgppm_hierarchical.py (search mask and   *)
(*   timing check in the selection);                                       *)
(* variant "zeroed": peak_pickers/hierarchical_sgppm.py (corrected signal  *)
(*   zeroed before the minimum time).                                      *)
(***************************************************************************)
Variants == {"masked", "zeroed"}

IdleHierarchy ==
  /\ sequence_hierarchy = EmptyHierarchy
  /\ adds = 0
  /\ generated = {}
  /\ gen_input = NoSeq

Init ==
  /\ IdleHierarchy
  /\ IdleAnalysis
  /\ IdleBaseline
  /\ IdleComponents
  /\ variant \in Variants
  /\ \E batch \in SUBSET Library :
       /\ batch # {}
       /\ Cardinality(batch) <= MaxBatch
       /\ chroms \in [batch -> {NewChromatogram(y) : y \in Traces}]
  /\ base_sequence = NoSeq
  /\ elution_times = <<>>
  /\ peak_intensities = <<>>
  /\ level = 0
  /\ pc = "start"
  /\ results = <<>>

\* variant that also takes the chromatograms of the next level
level_chromatograms_two_levels(h, lvl) ==
  {s \in get_sequences_by_level(h, lvl) \cup get_sequences_by_level(h, lvl + 1) :
     s \in DOMAIN chroms}

\* level_chromatograms of the loop in pick_peaks, as the set of their keys
level_chromatograms(h, lvl) ==
  {s \in get_sequences_by_level(h, lvl) : s \in DOMAIN chroms}

\* the next iteration of `for level in range(len(base_sequence) + 1)` whose
\* level_chromatograms is not empty; len(base_sequence) + 1 when the loop ends
RECURSIVE next_level(_, _, _)
next_level(h, lvl, base) ==
  IF lvl > Len(base) THEN Len(base) + 1
  ELSE IF level_chromatograms(h, lvl) # {} THEN lvl
  ELSE next_level(h, lvl + 1, base)

\* pick_peaks up to the level loop: base sequence, hierarchy
Start ==
  /\ pc = "start"
  /\ \E base \in DOMAIN chroms :
       /\ \A s \in DOMAIN chroms : count_non_null(s) <= count_non_null(base)
       /\ LET all_sequences == ListOf(generate_all_descendants(base)) \o <<base>>
              h == add_sequences(EmptyHierarchy, all_sequences)
              first == next_level(h, 0, base)
          IN /\ base_sequence' = base
             /\ sequence_hierarchy' = h
             /\ level' = first
             /\ pc' = IF first > Len(base) THEN "done" ELSE "prepare"
  /\ UNCHANGED <<adds, generated, gen_input, variant, chroms, elution_times,
                 peak_intensities, results>>
  /\ UNCHANGED <<analysis_vars, baseline_vars, component_vars>>

Current == level_chromatograms(sequence_hierarchy, level)

\* _prepare_chromatograms: correct every chromatogram of the level in list
\* order; an exception of correct_baseline leaves the loop and pick_peaks
PrepareChromatograms ==
  /\ pc = "prepare"
  /\ LET failing == {s \in Current : sliding_window_minimum_raises(chroms[s].y)}
         corrected(done) ==
           [s \in DOMAIN chroms |->
              IF s \in done
              THEN [chroms[s] EXCEPT
                      !.y_corrected = sliding_window_minimum(chroms[s].y),
                      !.stage = "corrected"]
              ELSE chroms[s]]
     IN IF failing = {}
        THEN /\ chroms' = corrected(Current)
             /\ pc' = IF level > 0 THEN "constrain" ELSE "find"
        ELSE \E before \in SUBSET (Current \ failing) :
               /\ chroms' = corrected(before)
               /\ pc' = "raised"
  /\ UNCHANGED <<hier_vars, variant, base_sequence, elution_times,
                 peak_intensities, level, results>>
  /\ UNCHANGED <<analysis_vars, baseline_vars, component_vars>>

\* elution times of the descendants that have one
valid_descendant_times(s) ==
  { elution_times[d] : d \in { e \in get_descendants(sequence_hierarchy, s) :
                                 e \in DOMAIN elution_times } }

\* _create_search_masks (masked variant)
create_search_mask(chrom, s) ==
  LET times == valid_descendant_times(s)
  IN IF times # {}
     THEN LET min_time == Max(times) + Config.peak_time_threshold
              min_idx == searchsorted(chrom.x, min_time)
          IN [chrom EXCEPT
                !.search_mask = [i \in 1..Len(chrom.y) |-> i > min_idx],
                !.stage = "constrained"]
     ELSE [chrom EXCEPT
             !.search_mask = [i \in 1..Len(chrom.y) |-> TRUE],
             !.stage = "constrained"]

\* _apply_hierarchy_constraints (zeroed variant)
apply_hierarchy_constraint(chrom, s) ==
  LET times == valid_descendant_times(s)
  IN IF times # {}
     THEN LET min_time == Max(times) + Config.peak_time_threshold
              min_idx == searchsorted(chrom.x, min_time)
          IN [chrom EXCEPT
                !.y_corrected = [i \in 1..Len(chrom.y_corrected) |->
                                   IF i <= min_idx THEN 0
                                   ELSE chrom.y_corrected[i]],
                !.stage = "constrained"]
     ELSE [chrom EXCEPT !.stage = "constrained"]

ApplyConstraints ==
  /\ pc = "constrain"
  /\ chroms' = [s \in DOMAIN chroms |->
                  IF s \notin Current THEN chroms[s]
                  ELSE IF variant = "masked"
                       THEN create_search_mask(chroms[s], s)
                       ELSE apply_hierarchy_constraint(chroms[s], s)]
  /\ pc' = "find"
  /\ UNCHANGED <<hier_vars, variant, base_sequence, elution_times,
                 peak_intensities, level, results>>
  /\ UNCHANGED <<analysis_vars, baseline_vars, component_vars>>

\* _find_peaks: every find_peaks candidate is fitted with a Gaussian and kept
\* when fit_stddev < stddev_threshold.  The outcome of the numerical fit is
\* not computed here: any subset of the candidates may pass.
RECURSIVE detection_outcomes(_)
detection_outcomes(todo) ==
  IF todo = {} THEN { <<>> }
  ELSE LET s == CHOOSE t \in todo : TRUE
       IN { Put(f, s, { PeakAt(chroms[s], i) : i \in kept }) :
              f \in detection_outcomes(todo \ {s}),
              kept \in SUBSET search_peaks(chroms[s]) }

FindPeaks ==
  /\ pc = "find"
  /\ \E fitted_peaks \in detection_outcomes(Current) :
       chroms' = [s \in DOMAIN chroms |->
                    IF s \in Current
                    THEN [chroms[s] EXCEPT !.peaks = fitted_peaks[s],
                                           !.stage = "detected"]
                    ELSE chroms[s]]
  /\ pc' = "select"
  /\ UNCHANGED <<hier_vars, variant, base_sequence, elution_times,
                 peak_intensities, level, results>>
  /\ UNCHANGED <<analysis_vars, baseline_vars, component_vars>>

\* variant that ignores the recorded intensities
max_descendant_intensity_default(s) == 0

max_descendant_intensity(s) ==
  Max({0} \cup { Get(peak_intensities, d, 0) :
                   d \in get_descendants(sequence_hierarchy, s) })

\* the filter of _hierarchical_peak_selection in sgppm_hierarchical.py
valid_peaks_masked(chrom, s) ==
  { p \in chrom.peaks :
      /\ p.height >= Config.height_threshold
      /\ 100 * p.height >= SeqMax(chrom.y_corrected) * Config.pick_rel_height_pct
      /\ (get_level(s) > 0 => p.height > max_descendant_intensity(s))
      /\ \A d \in get_descendants(sequence_hierarchy, s) :
           d \in DOMAIN elution_times =>
             p.time > elution_times[d] + Config.peak_time_threshold }

\* the filter of _hierarchical_peak_selection in hierarchical_sgppm.py
valid_peaks_zeroed(chrom, s) ==
  { p \in chrom.peaks :
      /\ p.height >= Config.height_threshold
      /\ (get_level(s) = 0 \/ p.height > max_descendant_intensity(s)) }

\* max(valid_peaks, key=time), as a set of at most one peak
latest(valid_peaks) ==
  { p \in valid_peaks : \A q \in valid_peaks : q.time <= p.time }

hierarchical_peak_selection(chrom, s) ==
  IF chrom.peaks = {}
  THEN [chrom EXCEPT !.stage = "selected"]
  ELSE LET valid_peaks == IF variant = "masked"
                          THEN valid_peaks_masked(chrom, s)
                          ELSE valid_peaks_zeroed(chrom, s)
       IN [chrom EXCEPT !.picked_peak = latest(valid_peaks),
                        !.stage = "selected"]

SelectPeaks ==
  /\ pc = "select"
  /\ chroms' = [s \in DOMAIN chroms |->
                  IF s \in Current
                  THEN hierarchical_peak_selection(chroms[s], s)
                  ELSE chroms[s]]
  /\ pc' = "update"
  /\ UNCHANGED <<hier_vars, variant, base_sequence, elution_times,
                 peak_intensities, level, results>>
  /\ UNCHANGED <<analysis_vars, baseline_vars, component_vars>>

RECURSIVE SetToSeq(_)
SetToSeq(S) ==
  IF S = {} THEN <<>>
  ELSE LET e == CHOOSE x \in S : TRUE IN <<e>> \o SetToSeq(S \ {e})

ThePeak(chrom) == CHOOSE p \in chrom.picked_peak : TRUE

\* variant that writes an entry for every chromatogram of the level
record_picks_every_chromatogram(map, field) ==
  [s \in DOMAIN map \cup Current |->
     IF s \in Current
     THEN IF chroms[s].picked_peak = {} THEN 0
          ELSE IF field = "time" THEN ThePeak(chroms[s]).time
                                 ELSE ThePeak(chroms[s]).height
     ELSE map[s]]

\* variant that starts from an empty dict at every level
record_picks_fresh_dict(map, field) ==
  [s \in {c \in Current : chroms[c].picked_peak # {}} |->
     IF field = "time" THEN ThePeak(chroms[s]).time
                       ELSE ThePeak(chroms[s]).height]

\* pick_peaks, "Update times and intensities" and results.extend, then the
\* next iteration of the level loop
record_picks(map, field) ==
  [s \in DOMAIN map \cup {c \in Current : chroms[c].picked_peak # {}} |->
     IF s \in Current /\ chroms[s].picked_peak # {}
     THEN IF field = "time" THEN ThePeak(chroms[s]).time
                            ELSE ThePeak(chroms[s]).height
     ELSE map[s]]

UpdateMaps ==
  /\ pc = "update"
  /\ elution_times' = record_picks(elution_times, "time")
  /\ peak_intensities' = record_picks(peak_intensities, "height")
  /\ chroms' = [s \in DOMAIN chroms |->
                  IF s \in Current THEN [chroms[s] EXCEPT !.stage = "recorded"]
                  ELSE chroms[s]]
  /\ results' = results \o SetToSeq(Current)
  /\ LET nxt == next_level(sequence_hierarchy, level + 1, base_sequence)
     IN /\ level' = nxt
        /\ pc' = IF nxt > Len(base_sequence) THEN "done" ELSE "prepare"
  /\ UNCHANGED <<hier_vars, variant, base_sequence>>
  /\ UNCHANGED <<analysis_vars, baseline_vars, component_vars>>

Next ==
  \/ Start
  \/ PrepareChromatograms
  \/ ApplyConstraints
  \/ FindPeaks
  \/ SelectPeaks
  \/ UpdateMaps

Spec == Init /\ [][Next]_vars

(***************************************************************************)
(* Properties                                                              *)
(***************************************************************************)
Batch == DOMAIN chroms
Picked(s) == chroms[s].picked_peak # {}
Selected(s) == chroms[s].stage \in {"selected", "recorded"}
Constrained(s) ==
  chroms[s].stage \in {"constrained", "detected", "selected", "recorded"}
Desc(s) == get_descendants(sequence_hierarchy, s)

\* C1: a picked peak of a chromatogram at level > 0 lies strictly after
\* (elution time + peak_time_threshold) of every descendant that has a
\* recorded elution time.
C1_PickedAfterDescendants ==
  \A s \in Batch :
    (get_level(s) > 0 /\ Selected(s) /\ Picked(s)) =>
      \A d \in Desc(s) :
        d \in DOMAIN elution_times =>
          ThePeak(chroms[s]).time >
            elution_times[d] + Config.peak_time_threshold

\* C2: no chromatogram of hierarchy level k+1 has begun any stage unless
\* every batch chromatogram of hierarchy level k is past selection with its
\* picked time and height, if any, in the value maps.
C2_LevelOrder ==
  \A s, d \in Batch :
    \A k \in 0..SeqLen :
      ( /\ d \in get_sequences_by_level(sequence_hierarchy, k)
        /\ s \in get_sequences_by_level(sequence_hierarchy, k + 1)
        /\ chroms[s].stage # "unprocessed" )
      => /\ chroms[d].stage = "recorded"
         /\ Picked(d) =>
              /\ d \in DOMAIN elution_times
              /\ d \in DOMAIN peak_intensities
              /\ elution_times[d] = ThePeak(chroms[d]).time
              /\ peak_intensities[d] = ThePeak(chroms[d]).height

C2_Witness ==
  \E s, d \in Batch :
    /\ d \in Desc(s)
    /\ chroms[s].stage = "corrected"
    /\ Picked(d)
    /\ d \in DOMAIN elution_times

\* C3: a picked peak of a chromatogram at level > 0 is strictly higher than
\* every peak intensity recorded for one of its descendants.
C3_PickedAboveDescendants ==
  \A s \in Batch :
    (get_level(s) > 0 /\ Selected(s) /\ Picked(s)) =>
      \A d \in Desc(s) :
        d \in DOMAIN peak_intensities =>
          ThePeak(chroms[s]).height > peak_intensities[d]

C3_Witness ==
  \E s \in Batch :
    /\ get_level(s) > 0 /\ Selected(s) /\ Picked(s)
    /\ \E d \in Desc(s) : d \in DOMAIN peak_intensities

\* The validity conditions of the selection as the specification states
\* them: absolute and relative height thresholds, and for level > 0 the
\* descendants' intensity and elution-time constraints.
ValidCandidates(s) ==
  { p \in chroms[s].peaks :
      /\ p.height >= Config.height_threshold
      /\ 100 * p.height >=
           SeqMax(chroms[s].y_corrected) * Config.pick_rel_height_pct
      /\ get_level(s) > 0 =>
           \A d \in Desc(s) :
             /\ d \in DOMAIN peak_intensities => p.height > peak_intensities[d]
             /\ d \in DOMAIN elution_times =>
                  p.time > elution_times[d] + Config.peak_time_threshold }

\* C4: when some detected candidate is valid, the picked peak is the valid
\* candidate with the greatest apex time.
C4_LatestValidPicked ==
  \A s \in Batch :
    (Selected(s) /\ ValidCandidates(s) # {}) =>
      /\ Picked(s)
      /\ ThePeak(chroms[s]) \in ValidCandidates(s)
      /\ \A q \in ValidCandidates(s) : q.time <= ThePeak(chroms[s]).time

\* The constraint a chromatogram's descendants put on its search window,
\* from the picked peaks of the descendants in the batch except `without`.
MinTimeFrom(s, without) ==
  LET picks == { d \in (Desc(s) \cap Batch) \ without : Picked(d) }
  IN IF picks = {} THEN 0
     ELSE Max({ ThePeak(chroms[d]).time : d \in picks })
            + Config.peak_time_threshold

ConstraintFrom(a, without) ==
  IF variant = "masked"
  THEN chroms[a].search_mask =
         [i \in 1..Len(chroms[a].y) |->
            chroms[a].x[i] >= MinTimeFrom(a, without)]
  ELSE chroms[a].y_corrected =
         [i \in 1..Len(chroms[a].y) |->
            IF chroms[a].x[i] >= MinTimeFrom(a, without)
            THEN sliding_window_minimum(chroms[a].y)[i] ELSE 0]

NoPickFrame ==
  \A q \in DOMAIN elution_times' \cup DOMAIN peak_intensities' :
    ( \/ Get(elution_times', q, -1) # Get(elution_times, q, -1)
      \/ Get(peak_intensities', q, -1) # Get(peak_intensities, q, -1) )
    => q \in Batch /\ Picked(q)

\* C5: a chromatogram that finishes its level with no picked peak creates
\* or changes no elution-time or intensity entry, and the constraint applied
\* to each of its ancestors comes only from the ancestor's other descendants
\* that did record a peak.
C5_NoPickNoConstraint ==
  /\ [](\A s \in Batch :
          (chroms[s].stage = "recorded" /\ ~Picked(s)) =>
            /\ s \notin DOMAIN elution_times
            /\ s \notin DOMAIN peak_intensities
            /\ \A a \in get_ancestors(sequence_hierarchy, s) \cap Batch :
                 Constrained(a) => ConstraintFrom(a, {s}))
  /\ [][NoPickFrame]_vars

C5_Witness ==
  \E s \in Batch :
    /\ chroms[s].stage = "recorded" /\ ~Picked(s)
    /\ \E a \in get_ancestors(sequence_hierarchy, s) \cap Batch :
         /\ Constrained(a)
         /\ MinTimeFrom(a, {s}) > 0

\* C6: an elution-time / intensity entry is written at most once, by the
\* processing of the chromatogram owning that sequence, and never modified
\* or removed afterwards.
C6_WriteOnce ==
  [][ /\ \A q \in DOMAIN elution_times :
           q \in DOMAIN elution_times' /\ elution_times'[q] = elution_times[q]
      /\ \A q \in DOMAIN peak_intensities :
           q \in DOMAIN peak_intensities'
           /\ peak_intensities'[q] = peak_intensities[q]
      /\ \A q \in (DOMAIN elution_times' \ DOMAIN elution_times)
                    \cup (DOMAIN peak_intensities' \ DOMAIN peak_intensities) :
           /\ q \in Batch
           /\ chroms[q].stage = "selected"
           /\ Picked(q)
           /\ elution_times'[q] = ThePeak(chroms[q]).time
           /\ peak_intensities'[q] = ThePeak(chroms[q]).height ]_vars

C6_Witness ==
  /\ pc = "done"
  /\ \E s, d \in DOMAIN elution_times : d \in Desc(s)

\* C7: d is a descendant of s exactly when s is an ancestor of d.
C7_SymmetricInverse ==
  \A s, d \in AllSeqs :
    d \in get_descendants(sequence_hierarchy, s)
      <=> s \in get_ancestors(sequence_hierarchy, d)

C7_Witness ==
  \E s, d \in DOMAIN sequence_hierarchy.descendants :
    /\ d \in get_descendants(sequence_hierarchy, s)
    /\ get_descendants(sequence_hierarchy, d) # {}

\* C8: every added sequence is stored at level count_non_null(s), and each
\* of its descendants has one non-null element less.
C8_Levels ==
  /\ \A s \in DOMAIN sequence_hierarchy.descendants :
       s \in get_sequences_by_level(sequence_hierarchy, count_non_null(s))
  /\ \A l \in DOMAIN sequence_hierarchy.levels :
       \A s \in sequence_hierarchy.levels[l] : count_non_null(s) = l
  /\ \A s \in DOMAIN sequence_hierarchy.descendants :
       \A d \in sequence_hierarchy.descendants[s] :
         get_level(d) = get_level(s) - 1

C8_Witness ==
  \E s \in DOMAIN sequence_hierarchy.descendants :
    /\ count_non_null(s) = SeqLen
    /\ Cardinality(sequence_hierarchy.descendants[s]) = SeqLen

RECURSIVE SumTo(_, _, _)
\* sum over k = 0..n of Choose(a, k) * (number of distinct order-preserving
\* selections of k of the non-null elements of sequence)
SumTo(n, a, sequence) ==
  LET nn == non_null_elements(sequence)
      selections == { [i \in 1..n |-> nn[c[i]]] : c \in Combinations(Len(nn), n) }
      term == Choose(a, n) * Cardinality(selections)
  IN IF n = 0 THEN term ELSE term + SumTo(n - 1, a, sequence)

RECURSIVE BinomialSum(_, _)
BinomialSum(n, k) ==
  IF k = 0 THEN Choose(n, 0) ELSE Choose(n, k) + BinomialSum(n, k - 1)

ListDistinct ==
  /\ \A e1, e2 \in generated : e1[2] = e2[2] => e1 = e2
  /\ \A e \in generated : Len(e[2]) = Len(gen_input)

\* C9 as stated: the list has sum over k = 0..n of C(n, k) entries, pairwise
\* distinct, each of length len(s).
C9_BinomialCount ==
  gen_input # NoSeq =>
    /\ Cardinality(generated) =
         BinomialSum(count_non_null(gen_input), count_non_null(gen_input))
    /\ ListDistinct

\* C9 amended: the entries are pairwise distinct, of length len(s), and
\* there are sum over k = 0..n of C(len(s), k) * D(k) of them, D(k) being
\* the number of distinct order-preserving selections of k non-null elements.
C9_PlacementCount ==
  gen_input # NoSeq =>
    /\ Cardinality(generated) =
         SumTo(count_non_null(gen_input), Len(gen_input), gen_input)
    /\ ListDistinct

C9_Witness ==
  /\ count_non_null(gen_input) = SeqLen
  /\ \E i, j \in DOMAIN gen_input : gen_input[i] # gen_input[j]
  /\ Cardinality(generated) > BinomialSum(SeqLen, SeqLen)

\* C10: when baseline correction raises for one chromatogram of a level,
\* the other chromatograms of that level still get corrected, detected and
\* selected, and the run is not aborted.
C10_FailureIsolated ==
  /\ pc # "raised"
  /\ (pc = "done" =>
        \A s \in Batch :
          ( /\ \E l \in DOMAIN sequence_hierarchy.levels :
                 s \in sequence_hierarchy.levels[l]
            /\ ~sliding_window_minimum_raises(chroms[s].y) )
          => Selected(s))

InResults(s) == \E i \in DOMAIN results : results[i] = s

\* C11: when the batch run returns, the returned results hold every
\* chromatogram of the input batch, whatever its sequence.
C11_ResultForEveryInput ==
  pc = "done" => \A s \in Batch : InResults(s)

\* C12: a chromatogram that is past selection and has no valid candidate
\* among its detected peaks (none detected, or none passing the validity
\* conditions) has no picked peak.
C12_NoValidNoPick ==
  \A s \in Batch :
    (Selected(s) /\ ValidCandidates(s) = {}) => ~Picked(s)

\* the corrected signal as baseline correction produced it
CorrectedBeforeConstraint(s) == sliding_window_minimum(chroms[s].y)

\* C13: once detection has finished for a chromatogram at level > 0, every
\* stored raw and corrected sample has the value it had before the
\* hierarchy time constraint was applied; no step changes a raw sample.
C13_ConstraintKeepsData ==
  /\ [](\A s \in Batch :
          ( /\ get_level(s) > 0
            /\ chroms[s].stage \in {"detected", "selected", "recorded"} )
          => chroms[s].y_corrected = CorrectedBeforeConstraint(s))
  /\ [][\A s \in Batch : chroms'[s].y = chroms[s].y]_vars

(***************************************************************************)
(* Peak analysis: PeakAnalyzer of analyzers/peak_analyzer.py, called by    *)
(* _find_peaks of peak_pickers/classic_chrome.py, and the boundary search  *)
(* of peak_picking/peak_analyzer.py.  Indices are 1-based: the trace edges *)
(* are 1 and Len(y).  Width, area, symmetry and skewness are real-valued   *)
(* and not carried; the resolution is kept as the neighbour and the apex   *)
(* time difference it is computed from.                                    *)
(***************************************************************************)
TraceLen == 7        \* samples of an analysed trace
MaxIntensity == 1    \* largest sample value of an analysed trace

Abs(n) == IF n < 0 THEN 0 - n ELSE n

Analyzers == {"analyzers", "peak_picking"}

\* metric of a Peak that has not been set (NaN / missing key)
Unset == 0 - 1

\* gaussian_residuals recorded when the fit fails: 1.0, in tenths
FitFailureResidual == 10

AnalysisTraces == [1..TraceLen -> 0..MaxIntensity]

RECURSIVE Ascending(_)
Ascending(S) ==
  IF S = {} THEN <<>> ELSE <<Min(S)>> \o Ascending(S \ {Min(S)})

\* Peak() with time, index and height set by _find_peaks
NewPeak(chrom, i) ==
  [index |-> i, time |-> chrom.x[i], height |-> chrom.y_corrected[i],
   left_base_index |-> Unset, right_base_index |-> Unset, width |-> Unset,
   prominence |-> Unset, fit_error |-> "none", gaussian_residuals |-> Unset,
   nearest |-> Unset, delta_t |-> Unset, resolution |-> "unset",
   score |-> "unset", raised |-> FALSE]

\* the loop conditions of _calculate_peak_boundaries
is_local_minimum(y, i) == y[i] <= y[i - 1] /\ y[i] <= y[i + 1]

RECURSIVE move_left(_, _)
move_left(y, left) ==
  IF left > 1 /\ ~is_local_minimum(y, left) THEN move_left(y, left - 1)
  ELSE left

RECURSIVE move_right(_, _)
move_right(y, right) ==
  IF right < Len(y) /\ ~is_local_minimum(y, right) THEN move_right(y, right + 1)
  ELSE right

calculate_peak_boundaries(y, peak) ==
  [peak EXCEPT !.left_base_index = move_left(y, peak.index),
               !.right_base_index = move_right(y, peak.index)]

\* the loops of _find_peak_boundaries (peak_picking/peak_analyzer.py)
RECURSIVE descend_left(_, _)
descend_left(y, left_base) ==
  IF left_base > 1 /\ y[left_base - 1] < y[left_base]
  THEN descend_left(y, left_base - 1)
  ELSE left_base

RECURSIVE descend_right(_, _)
descend_right(y, right_base) ==
  IF right_base < Len(y) /\ y[right_base + 1] < y[right_base]
  THEN descend_right(y, right_base + 1)
  ELSE right_base

find_peak_boundaries(y, peak) ==
  [peak EXCEPT !.left_base_index = descend_left(y, peak.index),
               !.right_base_index = descend_right(y, peak.index)]

\* _calculate_peak_width of peak_picking/peak_analyzer.py
calculate_peak_width(x, y, peak) ==
  LET p == find_peak_boundaries(y, peak)
  IN [p EXCEPT !.width = x[p.right_base_index] - x[p.left_base_index]]

calculate_peak_prominence(y, peak) ==
  [peak EXCEPT !.prominence =
     peak.height - Min({y[peak.left_base_index], y[peak.right_base_index]})]

\* What curve_fit does with the peak region is not computed: it returns
\* parameters (any residual) or raises RuntimeError (no convergence) or
\* ValueError (invalid input, infeasible bounds).
FitOutcomes ==
  { [error |-> "none", residuals |-> r] : r \in {0, 4} }
    \cup { [error |-> e, residuals |-> Unset] : e \in {"RuntimeError", "ValueError"} }

\* variant without the except clause: the fit exception leaves the function
calculate_gaussian_fit_propagates(peak, fit) ==
  IF fit.error = "none"
  THEN [peak EXCEPT !.gaussian_residuals = fit.residuals, !.fit_error = "none"]
  ELSE [peak EXCEPT !.raised = TRUE]

calculate_gaussian_fit(peak, fit) ==
  IF fit.error = "none"
  THEN [peak EXCEPT !.gaussian_residuals = fit.residuals, !.fit_error = "none"]
  ELSE [peak EXCEPT !.gaussian_residuals = FitFailureResidual,
                    !.fit_error = fit.error]

\* distances = np.abs(np.array(all_peak_indices) - peak['index'])
peak_distances(peaks, peak) ==
  [k \in 1..Len(peaks) |-> Abs(peaks[k].index - peak.index)]

\* np.argsort(distances)[1]: the list positions a sort can put second
\* (equal distances may come out in either order)
argsort_second(distances) ==
  { k \in DOMAIN distances :
      /\ Cardinality({q \in DOMAIN distances : distances[q] < distances[k]}) <= 1
      /\ Cardinality({q \in DOMAIN distances \ {k} :
                        distances[q] <= distances[k]}) >= 1 }

\* the choices of `nearest` open to _calculate_peak_resolution; 0 when the
\* list has fewer than two peaks
nearest_choices(peaks, peak) ==
  IF Len(peaks) < 2 THEN {0} ELSE argsort_second(peak_distances(peaks, peak))

\* variant with delta_t = x[index] - x[nearest], without abs()
calculate_peak_resolution_signed(x, peak, peaks, k) ==
  IF Len(peaks) < 2
  THEN [peak EXCEPT !.resolution = "inf", !.nearest = Unset, !.delta_t = Unset]
  ELSE LET nearest == peaks[k].index
       IN [peak EXCEPT !.nearest = nearest,
                       !.delta_t = x[peak.index] - x[nearest],
                       !.resolution = "finite"]

\* resolution = 2 * delta_t / (width + width of nearest)
calculate_peak_resolution(x, peak, peaks, k) ==
  IF Len(peaks) < 2
  THEN [peak EXCEPT !.resolution = "inf", !.nearest = Unset, !.delta_t = Unset]
  ELSE LET nearest == peaks[k].index
       IN [peak EXCEPT !.nearest = nearest,
                       !.delta_t = Abs(x[peak.index] - x[nearest]),
                       !.resolution = "finite"]

calculate_peak_score(peak) == [peak EXCEPT !.score = "computed"]

\* analyze_peak of analyzers/peak_analyzer.py
analyze_peak(chrom, peak, fit, k) ==
  LET bounded == calculate_peak_boundaries(chrom.y_corrected, peak)
      prominent == calculate_peak_prominence(chrom.y_corrected, bounded)
      fitted == calculate_gaussian_fit(prominent, fit)
  IN IF fitted.raised THEN fitted
     ELSE calculate_peak_score(
            calculate_peak_resolution(chrom.x, fitted, chrom.peaks, k))

IdleOutsideAnalysis ==
  /\ IdleHierarchy
  /\ IdleRun
  /\ IdleBaseline
  /\ IdleComponents

AInit ==
  /\ IdleOutsideAnalysis
  /\ analyzer \in Analyzers
  /\ \E y \in AnalysisTraces :
       /\ trace = [x |-> TimeAxis(y), y_corrected |-> y, peaks |-> <<>>]
       /\ search_indices = Ascending(local_maxima(y))
  /\ analysis_status = "running"

\* one iteration of the loop of _find_peaks: the peak is analysed against
\* chrom.peaks as it stands, then appended
AnalyzeAndAppend ==
  /\ analyzer = "analyzers"
  /\ analysis_status = "running"
  /\ search_indices # <<>>
  /\ LET fresh == NewPeak(trace, Head(search_indices))
     IN \E fit \in FitOutcomes, k \in nearest_choices(trace.peaks, fresh) :
          LET _peak == analyze_peak(trace, fresh, fit, k)
          IN IF _peak.raised
             THEN /\ analysis_status' = "raised"
                  /\ trace' = trace
             ELSE /\ analysis_status' = analysis_status
                  /\ trace' = [trace EXCEPT !.peaks = Append(@, _peak)]
  /\ search_indices' = Tail(search_indices)
  /\ UNCHANGED <<analyzer, hier_vars, run_vars, baseline_vars>>
  /\ UNCHANGED component_vars

\* analyze_peak on a peak that chrom.peaks already holds (the Peak object
\* is updated in place)
Reanalyze ==
  /\ analyzer = "analyzers"
  /\ analysis_status = "running"
  /\ \E j \in DOMAIN trace.peaks :
       \E fit \in FitOutcomes, k \in nearest_choices(trace.peaks, trace.peaks[j]) :
         LET _peak == analyze_peak(trace, trace.peaks[j], fit, k)
         IN IF _peak.raised
            THEN /\ analysis_status' = "raised"
                 /\ trace' = trace
            ELSE /\ analysis_status' = analysis_status
                 /\ trace' = [trace EXCEPT !.peaks[j] = _peak]
  /\ UNCHANGED <<analyzer, search_indices, hier_vars, run_vars, baseline_vars>>
  /\ UNCHANGED component_vars

\* _calculate_peak_width of peak_picking/peak_analyzer.py on the next
\* detected peak
CalculatePeakWidth ==
  /\ analyzer = "peak_picking"
  /\ analysis_status = "running"
  /\ search_indices # <<>>
  /\ trace' = [trace EXCEPT !.peaks =
                 Append(@, calculate_peak_width(trace.x, trace.y_corrected,
                              NewPeak(trace, Head(search_indices))))]
  /\ search_indices' = Tail(search_indices)
  /\ UNCHANGED <<analyzer, analysis_status, hier_vars, run_vars, baseline_vars>>
  /\ UNCHANGED component_vars

ANext == AnalyzeAndAppend \/ Reanalyze \/ CalculatePeakWidth

SpecAnalysis == AInit /\ [][ANext]_vars

AnalysedPeaks == { trace.peaks[j] : j \in DOMAIN trace.peaks }

BoundaryOk(y, i) ==
  \/ i = 1
  \/ i = Len(y)
  \/ (1 < i /\ i < Len(y) /\ y[i] <= y[i - 1] /\ y[i] <= y[i + 1])

\* C14: every analysed peak has left_base_index <= index <=
\* right_base_index, and each boundary is a trace edge or a sample not
\* above either of its neighbours.
C14_BoundariesAreValleys ==
  \A p \in AnalysedPeaks :
    /\ p.left_base_index <= p.index
    /\ p.index <= p.right_base_index
    /\ BoundaryOk(trace.y_corrected, p.left_base_index)
    /\ BoundaryOk(trace.y_corrected, p.right_base_index)

C16_FitFailureRecovered ==
  /\ analysis_status # "raised"
  /\ \A p \in AnalysedPeaks :
       (p.fit_error # "none") =>
         /\ p.gaussian_residuals = FitFailureResidual
         /\ p.resolution \in {"inf", "finite"}
         /\ p.score = "computed"

C16_Witness ==
  \E p \in AnalysedPeaks :
    /\ p.fit_error # "none"
    /\ p.resolution = "finite"
    /\ p.score = "computed"

(***************************************************************************)
(* SWM baseline correction on its own: SWM.correct_baseline of             *)
(* baseline_correctors/swm.py (the same algorithm as SWM.correct of        *)
(* analysis/baseline/swm.py), corrector "swm", and                         *)
(* BaselineCorrector._sliding_window_minimum of                            *)
(* peak_picking/baseline_corrector.py, corrector "sliding_window_minimum". *)
(* A signal is its finite sample values y plus the set non_finite of the   *)
(* positions that hold NaN (y is 0 there).                                 *)
(***************************************************************************)
SignalLen == 4     \* longest signal handed to a corrector
MaxSample == 2     \* largest sample value of such a signal

Correctors == {"swm", "sliding_window_minimum"}
WindowLengths == {0 - 1, 0, 1, 2, 3, 5}
SampleValues == (0 - 1)..MaxSample

Signals ==
  UNION { { [x |-> TimeAxis(y), y |-> [i \in 1..n |-> IF i \in nf THEN 0 ELSE y[i]],
             non_finite |-> nf] :
              y \in [1..n -> SampleValues],
              nf \in {{}} \cup {{i} : i \in 1..n} }
          : n \in 0..SignalLen }

\* np.pad(y, (half_window, half_window), mode='edge') followed by the
\* minimum over the window at position i: the samples i - half_window ..
\* i + half_window, the first and last sample standing in beyond the ends
window_positions(n, i, w) ==
  { Max({1, Min({n, j})}) : j \in (i - (w \div 2))..(i + (w \div 2)) }

compute_baseline(y, i, w) == Min({ y[j] : j \in window_positions(Len(y), i, w) })

\* the minimum is NaN when the window holds one
baseline_is_nan(sig, i, w) ==
  window_positions(Len(sig.y), i, w) \cap sig.non_finite # {}

validate_inputs_raises(sig, w) ==
  \/ w <= 0
  \/ w % 2 = 0
  \/ Len(sig.y) = 0
  \/ sig.non_finite # {}
  \/ Len(sig.y) < w

\* y[mask]: the samples at the positions of keep, in order
RECURSIVE compress(_, _, _)
compress(y, keep, i) ==
  IF i > Len(y) THEN <<>>
  ELSE (IF i \in keep THEN <<y[i]>> ELSE <<>>) \o compress(y, keep, i + 1)

Raised == [raised |-> TRUE, y_corrected |-> <<>>, not_a_number |-> {}]

\* SWM.correct_baseline / SWM.correct
correct_baseline(sig, w) ==
  IF validate_inputs_raises(sig, w) THEN Raised
  ELSE LET y == sig.y
           y_corrected == [i \in 1..Len(y) |->
                             IF y[i] - compute_baseline(y, i, w) > 0
                             THEN y[i] ELSE 0]
           non_zero_mask == {i \in 1..Len(y) : y_corrected[i] # 0}
       IN IF non_zero_mask = {} THEN Raised
          ELSE [raised |-> FALSE,
                y_corrected |-> compress(y_corrected, non_zero_mask, 1),
                not_a_number |-> {}]

\* BaselineCorrector._sliding_window_minimum: no validation of the signal.
\* y_diff is NaN where the sample or its window holds NaN; dividing by
\* max(y_diff) leaves 0 at the zero differences, or NaN when the maximum is
\* 0 or NaN; the samples with y_diff != 0 (NaN included) get their raw value.
BaselineCorrector_sliding_window_minimum(sig, w) ==
  IF w <= 0 \/ w % 2 = 0 \/ Len(sig.y) = 0 THEN Raised
  ELSE LET y == sig.y
           n == Len(y)
           diff_nan == {i \in 1..n : i \in sig.non_finite \/ baseline_is_nan(sig, i, w)}
           y_diff(i) == y[i] - compute_baseline(y, i, w)
           max_is_nan == diff_nan # {}
           max_diff == Max({ y_diff(i) : i \in 1..n })
           non_zero_mask == {i \in 1..n : i \in diff_nan \/ y_diff(i) # 0}
       IN [raised |-> FALSE,
           y_corrected |-> [i \in 1..n |->
                              IF i \in non_zero_mask /\ i \notin sig.non_finite
                              THEN y[i] ELSE 0],
           not_a_number |->
             {i \in 1..n :
                \/ (i \in non_zero_mask /\ i \in sig.non_finite)
                \/ (i \notin non_zero_mask /\ (max_is_nan \/ max_diff = 0))}]

apply_corrector(sig, w) ==
  IF corrector = "swm" THEN correct_baseline(sig, w)
  ELSE BaselineCorrector_sliding_window_minimum(sig, w)

IdleOutsideBaseline ==
  /\ IdleHierarchy
  /\ IdleRun
  /\ IdleAnalysis
  /\ IdleComponents

BInit ==
  /\ IdleOutsideBaseline
  /\ corrector \in Correctors
  /\ window_length \in WindowLengths
  /\ signal \in Signals
  /\ correction = [y_corrected |-> <<>>, not_a_number |-> {}]
  /\ correction_status = "new"

\* the corrector applied to a chromatogram's raw intensity
CorrectBaseline ==
  /\ correction_status = "new"
  /\ LET r == apply_corrector(signal, window_length)
     IN /\ correction' = [y_corrected |-> r.y_corrected,
                          not_a_number |-> r.not_a_number]
        /\ correction_status' = IF r.raised THEN "raised" ELSE "returned"
  /\ UNCHANGED <<corrector, window_length, signal, hier_vars, run_vars,
                 analysis_vars>>
  /\ UNCHANGED component_vars

\* the corrector applied again, to a chromatogram whose raw intensity is
\* the output of the previous application
Recorrect ==
  /\ correction_status \in {"returned", "reapplied"}
  /\ LET again == [x |-> TimeAxis(correction.y_corrected),
                   y |-> correction.y_corrected,
                   non_finite |-> correction.not_a_number]
         r == apply_corrector(again, window_length)
     IN /\ signal' = again
        /\ correction' = [y_corrected |-> r.y_corrected,
                          not_a_number |-> r.not_a_number]
        /\ correction_status' = IF r.raised THEN "reapply_raised" ELSE "reapplied"
  /\ UNCHANGED <<corrector, window_length, hier_vars, run_vars, analysis_vars>>
  /\ UNCHANGED component_vars

\* Chromatogram.slice(start_time, end_time) of core/prototypes/chromatogram.py
\* on a corrected chromatogram: time and intensity are masked, y_corrected
\* is passed on as it is; the constructor rejects fewer than 2 points
Slice ==
  /\ correction_status = "returned"
  /\ \E start_time, end_time \in 1..SignalLen :
       LET mask == {i \in 1..Len(signal.x) :
                      signal.x[i] >= start_time /\ signal.x[i] <= end_time}
       IN /\ start_time < end_time
          /\ Cardinality(mask) >= 2
          /\ signal' = [x |-> compress(signal.x, mask, 1),
                        y |-> compress(signal.y, mask, 1),
                        non_finite |->
                          {Cardinality({j \in mask : j <= i}) :
                             i \in signal.non_finite \cap mask}]
  /\ correction_status' = "sliced"
  /\ UNCHANGED <<corrector, window_length, correction, hier_vars, run_vars,
                 analysis_vars>>
  /\ UNCHANGED component_vars

BNext == CorrectBaseline \/ Recorrect \/ Slice

SpecBaseline == BInit /\ [][BNext]_vars

ValidWindow == window_length > 0 /\ window_length % 2 = 1

\* the input is valid: odd positive window, finite samples, at least
\* window_length of them
ValidInput ==
  /\ ValidWindow
  /\ signal.non_finite = {}
  /\ Len(signal.y) >= window_length
  /\ Len(signal.y) > 0

AboveWindowMinimum ==
  {i \in 1..Len(signal.y) :
     signal.y[i] > compute_baseline(signal.y, i, window_length)}

\* C17: for valid input the SWM output is exactly the in-order subsequence
\* of the input samples that are strictly greater than the minimum over
\* the window centred on them.
C17_OutputIsRetainedSubsequence ==
  (correction_status = "returned" /\ ValidInput) =>
    /\ correction.not_a_number = {}
    /\ correction.y_corrected = compress(signal.y, AboveWindowMinimum, 1)

\* C18: SWM correction fails with an error when the window length is not a
\* positive odd integer, the signal is empty, holds a non-finite value, is
\* shorter than the window, or when correction removes every point.
C18_InvalidInputFails ==
  ( /\ correction_status \in {"returned", "raised"}
    /\ \/ ~ValidWindow
       \/ Len(signal.y) = 0
       \/ signal.non_finite # {}
       \/ Len(signal.y) < window_length
       \/ AboveWindowMinimum = {} )
  => correction_status = "raised"

C20_CorrectedSameLength ==
  correction_status \in {"returned", "reapplied", "sliced"} =>
    /\ Len(correction.y_corrected) = Len(signal.y)
    /\ Len(correction.y_corrected) = Len(signal.x)

(***************************************************************************)
(* Properties of the batch run: thresholds, transitive order, search mask  *)
(***************************************************************************)
\* C23: a picked peak's height is at least height_threshold and at least
\* pick_rel_height of the maximum of the chromatogram's corrected intensity.
C23_PickedClearsThresholds ==
  \A s \in Batch :
    (Selected(s) /\ Picked(s)) =>
      /\ ThePeak(chroms[s]).height >= Config.height_threshold
      /\ 100 * ThePeak(chroms[s]).height >=
           SeqMax(chroms[s].y_corrected) * Config.pick_rel_height_pct

\* d is obtained from s by replacing one or more non-null elements with the
\* null element: a direct or transitive descendant of s
IsDescendantOf(d, s) ==
  /\ d # s
  /\ \A i \in DOMAIN s : d[i] = s[i] \/ d[i] = NullElement

\* C24: at the end of a run, for every sequence s and every direct or
\* transitive descendant d of s that both have a picked peak, the picked
\* time of s is strictly greater than the picked time of d plus
\* peak_time_threshold.
C24_TransitiveOrder ==
  pc = "done" =>
    \A s, d \in Batch :
      (IsDescendantOf(d, s) /\ Picked(s) /\ Picked(d)) =>
        ThePeak(chroms[s]).time >
          ThePeak(chroms[d]).time + Config.peak_time_threshold

\* C26: after detection, no peak of a chromatogram that has a search mask
\* has its apex at an index where the mask is false.
C26_MaskHonoured ==
  \A s \in Batch :
    ( /\ chroms[s].search_mask # <<>>
      /\ chroms[s].stage \in {"detected", "selected", "recorded"} )
    => \A p \in chroms[s].peaks : chroms[s].search_mask[p.index]

(***************************************************************************)
(* Resolution of the detected peaks once _find_peaks has gone through      *)
(* every find_peaks index                                                  *)
(***************************************************************************)
DetectionFinished ==
  /\ analyzer = "analyzers"
  /\ analysis_status = "running"
  /\ search_indices = <<>>

\* C28: after detection finishes, a peak's resolution is +infinity exactly
\* when the chromatogram has fewer than two detected peaks; otherwise it
\* is computed against another detected peak, none of the other detected
\* peaks being closer to it.
C28_ResolutionAgainstClosestOther ==
  DetectionFinished =>
    \A p \in AnalysedPeaks :
      /\ (p.resolution = "inf") <=> (Len(trace.peaks) < 2)
      /\ (p.resolution = "finite") =>
           /\ p.nearest # p.index
           /\ \A q \in AnalysedPeaks :
                q.index # p.index =>
                  Abs(p.nearest - p.index) <= Abs(q.index - p.index)

(***************************************************************************)
(* AALS baseline correction: AALS.correct_baseline of                      *)
(* baseline_correctors/aals.py (smoother "AALS"), AALSCorrector.correct of *)
(* analysis/baseline/aals.py ("AALSCorrector") and                         *)
(* BaselineCorrector._asymmetric_least_squares_smoothing of                *)
(* peak_picking/baseline_corrector.py ("asymmetric_least_squares").        *)
(* Weights are in thousandths.  The solution z of (W + lam D'D) z = W y is *)
(* not computed: it is any vector over the sample grid, except where the   *)
(* system fixes it (a diagonal system, a NaN in the right-hand side).      *)
(***************************************************************************)
AalsLen == 3     \* longest signal handed to a smoother
AalsMax == 1     \* largest sample value of such a signal

Smoothers == {"AALS", "AALSCorrector", "asymmetric_least_squares"}

\* p and niter of AALSConfig, of the AALSCorrector fields and of the
\* keyword defaults of _asymmetric_least_squares_smoothing
AalsConfig ==
  [AALS |-> [p |-> 100, niter |-> 10],
   AALSCorrector |-> [p |-> 1, niter |-> 10],
   asymmetric_least_squares |-> [p |-> 1, niter |-> 10]]

AalsSignals ==
  UNION { { [y |-> [i \in 1..n |-> IF i \in nf THEN 0 ELSE y[i]],
             non_finite |-> nf] :
              y \in [1..n -> 0..AalsMax],
              nf \in {{}} \cup {{i} : i \in 1..n} }
          : n \in 0..AalsLen }

\* core/domain/chromatogram.py __post_init__: a Chromatogram has at least
\* two points
constructible(sig) == Len(sig.y) >= 2

\* w = np.ones(L)
ones(n) == [i \in 1..n |-> 1000]

\* rows x columns of D, of the penalty product and of W, per smoother
penalty_shape(s, n) ==
  IF s = "AALS" THEN <<n, n>>                      \* D.T @ D, D is (L-2, L)
  ELSE IF s = "AALSCorrector" THEN <<n - 2, n - 2>> \* D.dot(D.transpose()),
                                                    \* D is (L-2, L)
  ELSE <<n, n>>                                     \* D.dot(D.transpose()),
                                                    \* D is (L, L-2)

weight_shape(n) == <<n, n>>

\* Z = W + lam * penalty is singular: the penalty annihilates exactly the
\* vectors a + b*i, and such a vector that is not zero vanishes at one
\* sample at most; without a penalty (fewer than 3 samples) Z is W
singular(w) ==
  IF Len(w) < 3 THEN \E i \in DOMAIN w : w[i] = 0
  ELSE Cardinality({i \in DOMAIN w : w[i] # 0}) <= 1

\* np.linalg.solve raises LinAlgError when the factorisation meets a pivot
\* that is exactly zero: always on a singular system of up to 3 samples
\* (the elimination is exact), with more samples as rounding decides
zero_pivot(w) ==
  IF ~singular(w) THEN {FALSE}
  ELSE IF Len(w) <= 3 THEN {TRUE}
  ELSE BOOLEAN

\* the estimates z a solve may return for weights w
solutions(sig, w) ==
  LET n == Len(sig.y)
  IN IF sig.non_finite # {} \/ (n < 3 /\ ~singular(w)) THEN {sig.y}
     ELSE [1..n -> 0..AalsMax]

\* reweighting: np.where(y > z, p, 1 - p) in aals.py,
\* p * (y > z) + (1 - p) * (y <= z) in AALSCorrector,
\* p * (y > z) + (1 - p) * (y < z) in baseline_corrector.py;
\* a comparison with NaN is false
reweight(s, sig, z, z_nan) ==
  LET p == AalsConfig[s].p
  IN [i \in 1..Len(sig.y) |->
        IF z_nan \/ i \in sig.non_finite
        THEN (IF s = "AALS" THEN 1000 - p ELSE 0)
        ELSE IF sig.y[i] > z[i] THEN p
        ELSE IF s = "asymmetric_least_squares" /\ sig.y[i] = z[i] THEN 0
        ELSE 1000 - p]

NewAALS(sig) ==
  [y |-> sig.y, non_finite |-> sig.non_finite, w |-> ones(Len(sig.y)),
   z |-> <<>>, z_nan |-> FALSE, iteration |-> 0, singular |-> FALSE,
   intensity |-> <<>>, baseline |-> <<>>]

IdleOutsideAALS ==
  /\ IdleHierarchy
  /\ IdleRun
  /\ IdleAnalysis
  /\ IdleBaseline
  /\ IdleDetector
  /\ IdleBlocks
  /\ IdleCache

SInit ==
  /\ IdleOutsideAALS
  /\ smoother \in Smoothers
  /\ \E sig \in AalsSignals :
       /\ smoother = "AALSCorrector" => constructible(sig)
       /\ aals = NewAALS(sig)
  /\ aals_status = "new"

\* the function up to its loop: input validation (aals.py only)
AalsValidate ==
  /\ aals_status = "new"
  /\ aals_status' =
       IF smoother = "AALS" /\ (aals.non_finite # {} \/ Len(aals.y) < 3)
       THEN "ValueError"
       ELSE "running"
  /\ UNCHANGED <<smoother, aals>>
  /\ UNCHANGED <<hier_vars, run_vars, analysis_vars, baseline_vars,
                 detector_vars, block_vars, cache_vars>>

\* one iteration of the loop: build Z, solve, reweight
AalsIterate ==
  /\ aals_status = "running"
  /\ aals.iteration < AalsConfig[smoother].niter
  /\ IF penalty_shape(smoother, Len(aals.y)) # weight_shape(Len(aals.y))
     THEN /\ aals_status' = "ValueError"     \* inconsistent shapes
          /\ aals' = aals
     ELSE \E raises \in zero_pivot(aals.w) :
            IF raises
            THEN /\ aals_status' = "LinAlgError"
                 /\ aals' = [aals EXCEPT !.singular = TRUE]
            ELSE \E z \in solutions(aals, aals.w) :
                   LET z_nan == aals.non_finite # {}
                   IN /\ aals' = [aals EXCEPT
                                    !.z = z,
                                    !.z_nan = z_nan,
                                    !.w = reweight(smoother, aals, z, z_nan),
                                    !.iteration = @ + 1,
                                    !.singular = @ \/ singular(aals.w)]
                      /\ aals_status' = aals_status
  /\ UNCHANGED smoother
  /\ UNCHANGED <<hier_vars, run_vars, analysis_vars, baseline_vars,
                 detector_vars, block_vars, cache_vars>>

\* after the loop: y - z is stored or returned (with its baseline z by
\* AALSCorrector)
AalsReturn ==
  /\ aals_status = "running"
  /\ aals.iteration = AalsConfig[smoother].niter
  /\ aals' = [aals EXCEPT
                !.intensity = [i \in 1..Len(aals.y) |-> aals.y[i] - aals.z[i]],
                !.baseline = IF smoother = "AALSCorrector" THEN aals.z ELSE <<>>]
  /\ aals_status' = "returned"
  /\ UNCHANGED smoother
  /\ UNCHANGED <<hier_vars, run_vars, analysis_vars, baseline_vars,
                 detector_vars, block_vars, cache_vars>>

SNext == AalsValidate \/ AalsIterate \/ AalsReturn

SpecAALS == SInit /\ [][SNext]_vars

AalsFinished == aals_status \in {"returned", "ValueError", "LinAlgError"}

AalsValidInput == aals.non_finite = {} /\ Len(aals.y) >= 3

\* C21: AALS correction of a signal with a non-finite value or fewer than
\* 3 points fails with a ValueError, and correction that meets a singular
\* system fails with a LinAlgError; it returns a corrected signal in
\* neither case.
C21_AalsInvalidInputFails ==
  AalsFinished =>
    /\ ~AalsValidInput => aals_status = "ValueError"
    /\ (AalsValidInput /\ aals.singular) => aals_status = "LinAlgError"

\* C22: AALSCorrector.correct on a valid chromatogram returns a
\* chromatogram whose intensity and baseline have the input's length and
\* whose intensity plus baseline is the input intensity at every sample.
C22_CorrectedPlusBaseline ==
  (smoother = "AALSCorrector" /\ AalsValidInput /\ aals_status # "new") =>
    /\ aals_status \in {"running", "returned"}
    /\ aals_status = "returned" =>
         /\ Len(aals.intensity) = Len(aals.y)
         /\ Len(aals.baseline) = Len(aals.y)
         /\ \A i \in DOMAIN aals.y :
              aals.intensity[i] + aals.baseline[i] = aals.y[i]

(***************************************************************************)
(* One Chromatogram object through detection, selection and the peak       *)
(* operations of its class:                                                *)
(*   "core": core/chromatogram.py, filled by PeakFinder.find_peaks         *)
(*     (add_peaks), emptied by clear_peaks;                                *)
(*   "peak_picking": peak_picking/chromatogram.py, filled by _find_peaks   *)
(*     of sgppm_hierarchical.py (chrom.peaks = fitted_peaks);              *)
(*   "prototypes": core/prototypes/chromatogram.py, frozen, changed        *)
(*     through clone and with_peaks.                                       *)
(* A peak is kept as its index, time and height.  Which find_peaks         *)
(* candidates pass the thresholds and the fit is fixed by the trace, the   *)
(* metrics and the config: the set `detectable`, the same at every run.    *)
(***************************************************************************)
DetectorLen == 5    \* samples of the trace

ChromatogramClasses == {"core", "peak_picking", "prototypes"}

PeakHeights == {0, 6, 13}

DetectorTraces == [1..DetectorLen -> PeakHeights]

Range(f) == { f[i] : i \in DOMAIN f }

\* the Peak objects one detector run creates, in index order
create_peaks(chrom, indices) ==
  LET order == Ascending(indices)
  IN [k \in 1..Len(order) |->
        [index |-> order[k], time |-> chrom.x[order[k]],
         height |-> chrom.y[order[k]]]]

\* PeakFinder.find_peaks: chrom.add_peaks(peaks) appends
find_peaks(chrom, indices) ==
  [chrom EXCEPT !.peaks = @ \o create_peaks(chrom, indices)]

\* _find_peaks of sgppm_hierarchical.py: chrom.peaks = fitted_peaks
sgppm_find_peaks(chrom, indices) ==
  [chrom EXCEPT !.peaks = create_peaks(chrom, indices)]

\* _hierarchical_peak_selection for a chromatogram without descendants
select_peak(cls, chrom) ==
  IF chrom.peaks = <<>> THEN chrom
  ELSE LET valid_peaks ==
             { q \in Range(chrom.peaks) :
                 /\ q.height >= Config.height_threshold
                 /\ cls = "peak_picking" =>
                      100 * q.height >=
                        SeqMax(chrom.y) * Config.pick_rel_height_pct }
       IN [chrom EXCEPT !.picked_peak = latest(valid_peaks)]

\* Chromatogram.clear_peaks of core/chromatogram.py
clear_peaks(chrom) == [chrom EXCEPT !.peaks = <<>>, !.picked_peak = {}]

\* Chromatogram.with_peaks: self.clone(peaks=peaks)
with_peaks(chrom, peaks) == [chrom EXCEPT !.peaks = peaks]

IdleOutsideDetector ==
  /\ IdleHierarchy
  /\ IdleRun
  /\ IdleAnalysis
  /\ IdleBaseline
  /\ IdleAALS
  /\ IdleBlocks
  /\ IdleCache

DInit ==
  /\ IdleOutsideDetector
  /\ chromatogram_class \in ChromatogramClasses
  /\ \E y \in DetectorTraces :
       /\ chromatogram = [x |-> TimeAxis(y), y |-> y, peaks |-> <<>>,
                          picked_peak |-> {}]
       /\ detectable \in SUBSET local_maxima(y)
  /\ first_detection = <<>>
  /\ detector_status = "new"

\* a run of the detector on the chromatogram as it stands
Detect ==
  /\ chromatogram_class \in {"core", "peak_picking"}
  /\ detector_status \in {"new", "detected", "selected"}
  /\ LET after == IF chromatogram_class = "core"
                  THEN find_peaks(chromatogram, detectable)
                  ELSE sgppm_find_peaks(chromatogram, detectable)
     IN /\ chromatogram' = after
        /\ IF detector_status = "new"
           THEN /\ first_detection' = after.peaks
                /\ detector_status' = "detected"
           ELSE /\ first_detection' = first_detection
                /\ detector_status' = "redetected"
  /\ UNCHANGED <<chromatogram_class, detectable>>
  /\ UNCHANGED <<hier_vars, run_vars, analysis_vars, baseline_vars,
                 aals_vars, block_vars, cache_vars>>

\* the selection stage
Select ==
  /\ chromatogram_class \in {"core", "peak_picking"}
  /\ detector_status \in {"detected", "redetected"}
  /\ chromatogram' = select_peak(chromatogram_class, chromatogram)
  /\ detector_status' = IF detector_status = "detected" THEN "selected"
                        ELSE "reselected"
  /\ UNCHANGED <<chromatogram_class, detectable, first_detection>>
  /\ UNCHANGED <<hier_vars, run_vars, analysis_vars, baseline_vars,
                 aals_vars, block_vars, cache_vars>>

ClearPeaks ==
  /\ chromatogram_class = "core"
  /\ detector_status \in {"detected", "selected", "redetected", "reselected"}
  /\ chromatogram' = clear_peaks(chromatogram)
  /\ detector_status' = "cleared"
  /\ UNCHANGED <<chromatogram_class, detectable, first_detection>>
  /\ UNCHANGED <<hier_vars, run_vars, analysis_vars, baseline_vars,
                 aals_vars, block_vars, cache_vars>>

\* chromatogram.with_peaks(peaks) with the peaks of a detector run, or with
\* some of them
WithPeaks ==
  /\ chromatogram_class = "prototypes"
  /\ detector_status \in {"new", "detected", "selected"}
  /\ \E indices \in SUBSET detectable :
       chromatogram' = with_peaks(chromatogram,
                                  create_peaks(chromatogram, indices))
  /\ detector_status' = IF detector_status = "new" THEN "detected"
                        ELSE "redetected"
  /\ first_detection' = IF detector_status = "new" THEN chromatogram'.peaks
                        ELSE first_detection
  /\ UNCHANGED <<chromatogram_class, detectable>>
  /\ UNCHANGED <<hier_vars, run_vars, analysis_vars, baseline_vars,
                 aals_vars, block_vars, cache_vars>>

\* chromatogram.clone(picked_peak=peak) with one of its detected peaks
ClonePicked ==
  /\ chromatogram_class = "prototypes"
  /\ detector_status = "detected"
  /\ \E peak \in Range(chromatogram.peaks) :
       chromatogram' = [chromatogram EXCEPT !.picked_peak = {peak}]
  /\ detector_status' = "selected"
  /\ UNCHANGED <<chromatogram_class, detectable, first_detection>>
  /\ UNCHANGED <<hier_vars, run_vars, analysis_vars, baseline_vars,
                 aals_vars, block_vars, cache_vars>>

DNext == Detect \/ Select \/ ClearPeaks \/ WithPeaks \/ ClonePicked

SpecDetector == DInit /\ [][DNext]_vars

\* C25: the picked peak of a chromatogram is none or one of the peaks in
\* its detected-peak collection.
C25_PickedIsDetected ==
  chromatogram.picked_peak \subseteq Range(chromatogram.peaks)

\* C27: after the detector has run again on an unchanged trace, the
\* detected-peak collection is the one the first run left.
C27_RerunSameCollection ==
  ( /\ chromatogram_class \in {"core", "peak_picking"}
    /\ detector_status = "redetected" )
  => chromatogram.peaks = first_detection

(***************************************************************************)
(* BuildingBlock objects: equality and hash of the three classes           *)
(*   "domain": core/domain/building_block.py (name, mass, id, metadata),   *)
(*   "prototypes": core/prototypes/building_block.py (name, id, metadata), *)
(*   "core": core/building_block.py (name, properties).                    *)
(* A field a class does not have is 0.  A dict is kept as a number that    *)
(* stands for its content.  hash() is kept as the value that is hashed:    *)
(* two hashes are equal when these values are.                             *)
(***************************************************************************)
BlockClasses == {"domain", "prototypes", "core"}
Masses == {1, 2}
Ids == {1, 2}
Dicts == {0, 1}

\* the objects the constructor of a class can build
BuildingBlocks(cls) ==
  { [name |-> n, mass |-> m, id |-> i, metadata |-> d] :
      n \in Blocks,
      m \in IF cls = "domain" THEN Masses ELSE {0},
      i \in IF cls = "core" THEN {0} ELSE Ids,
      d \in Dicts }

\* __eq__: name and mass in domain/building_block.py; the dataclass
\* default, every field, in prototypes/building_block.py; name in
\* core/building_block.py
block_eq(cls, a, b) ==
  IF cls = "domain" THEN a.name = b.name /\ a.mass = b.mass
  ELSE IF cls = "prototypes" THEN a = b
  ELSE a.name = b.name

\* __hash__: hash((name, mass)); the hash a frozen dataclass generates
\* over every field, which raises TypeError on the dict fields;
\* hash(name)
block_hash(cls, a) ==
  IF cls = "domain" THEN [raised |-> FALSE, of |-> <<a.name, a.mass>>]
  ELSE IF cls = "prototypes" THEN [raised |-> TRUE, of |-> <<>>]
  ELSE [raised |-> FALSE, of |-> <<a.name, 0>>]

\* two tuples of blocks are the same dict key: equal hashes, equal elements
same_key(cls, s, t) ==
  /\ Len(s) = Len(t)
  /\ \A i \in DOMAIN s :
       /\ ~block_hash(cls, s[i]).raised
       /\ ~block_hash(cls, t[i]).raised
       /\ block_hash(cls, s[i]) = block_hash(cls, t[i])
       /\ block_eq(cls, s[i], t[i])

IdleOutsideBlocks ==
  /\ IdleHierarchy
  /\ IdleRun
  /\ IdleAnalysis
  /\ IdleBaseline
  /\ IdleAALS
  /\ IdleDetector
  /\ IdleCache

KInit ==
  /\ IdleOutsideBlocks
  /\ block_class \in BlockClasses
  /\ blocks \in [1..2 -> BuildingBlocks(block_class)]

\* block.with_metadata(**kwargs): same id, name and mass, new metadata
WithMetadata ==
  /\ block_class = "domain"
  /\ \E k \in DOMAIN blocks, d \in Dicts :
       blocks' = [blocks EXCEPT ![k].metadata = d]
  /\ UNCHANGED block_class
  /\ UNCHANGED <<hier_vars, run_vars, analysis_vars, baseline_vars,
                 aals_vars, detector_vars, cache_vars>>

\* block.clone(): a deep copy with a new id
CloneBlock ==
  /\ block_class = "prototypes"
  /\ \E k \in DOMAIN blocks, i \in Ids :
       blocks' = [blocks EXCEPT ![k].id = i]
  /\ UNCHANGED block_class
  /\ UNCHANGED <<hier_vars, run_vars, analysis_vars, baseline_vars,
                 aals_vars, detector_vars, cache_vars>>

\* block.properties = ... on the mutable dataclass
SetProperties ==
  /\ block_class = "core"
  /\ \E k \in DOMAIN blocks, d \in Dicts :
       blocks' = [blocks EXCEPT ![k].metadata = d]
  /\ UNCHANGED block_class
  /\ UNCHANGED <<hier_vars, run_vars, analysis_vars, baseline_vars,
                 aals_vars, detector_vars, cache_vars>>

KNext == WithMetadata \/ CloneBlock \/ SetProperties

SpecBlocks == KInit /\ [][KNext]_vars

\* C29: two building blocks with the same name are equal and have the
\* same hash whatever their mass, id and metadata, and sequences built
\* from them are the same hierarchy key.
C29_SameNameSameKey ==
  (block_class # "none" /\ blocks[1].name = blocks[2].name) =>
    /\ block_eq(block_class, blocks[1], blocks[2])
    /\ ~block_hash(block_class, blocks[1]).raised
    /\ block_hash(block_class, blocks[1]) = block_hash(block_class, blocks[2])
    /\ same_key(block_class, <<blocks[1], blocks[2]>>, <<blocks[2], blocks[1]>>)

(***************************************************************************)
(* The cache singletons: CacheSingleton.__new__ of                         *)
(* core/singletons/cache_singleton.py and BuildingBlockCache.__new__ of    *)
(* implementations/caches/building_block_cache.py, called from several     *)
(* threads.  Both use the one threading.Lock CacheSingleton._lock, which   *)
(* is not reentrant.  A thread's stack holds the frames of the __new__     *)
(* bodies it is in; objects are numbered in the order of their creation.   *)
(***************************************************************************)
MaxThreads == 2    \* threads that call the constructors
MaxCalls == 2      \* constructor calls of one thread

Threads == 1..MaxThreads
CacheClasses == {"CacheSingleton", "BuildingBlockCache"}

\* the frame of a __new__ body: impl is the class whose body runs, cls its
\* argument, instance its local variable (0: not bound)
Frame(impl, cls) == [impl |-> impl, cls |-> cls, pc |-> "check", instance |-> 0]

Top(t) == stacks[t][Len(stacks[t])]

Running(t) == stacks[t] # <<>>

SetTop(t, frame) == [stacks EXCEPT ![t][Len(stacks[t])] = frame]

IdleOutsideCache ==
  /\ IdleHierarchy
  /\ IdleRun
  /\ IdleAnalysis
  /\ IdleBaseline
  /\ IdleAALS
  /\ IdleDetector
  /\ IdleBlocks

CInit ==
  /\ IdleOutsideCache
  /\ instances = [c \in CacheClasses |-> 0]
  /\ lock = 0
  /\ stacks = [t \in Threads |-> <<>>]
  /\ returned = [t \in Threads |-> <<>>]

OutsideCache ==
  <<hier_vars, run_vars, analysis_vars, baseline_vars, aals_vars,
    detector_vars, block_vars>>

\* a thread evaluates CacheSingleton() or BuildingBlockCache()
Call(t) ==
  /\ ~Running(t)
  /\ Len(returned[t]) < MaxCalls
  /\ \E c \in CacheClasses : stacks' = [stacks EXCEPT ![t] = <<Frame(c, c)>>]
  /\ UNCHANGED <<instances, lock, returned, OutsideCache>>

\* if cls._instance is None:
Check(t) ==
  /\ Running(t)
  /\ Top(t).pc = "check"
  /\ stacks' = SetTop(t, [Top(t) EXCEPT !.pc =
                  IF instances[Top(t).cls] = 0 THEN "acquire" ELSE "return"])
  /\ UNCHANGED <<instances, lock, returned, OutsideCache>>

\* with cls._lock: blocks while any thread, this one included, holds it
Acquire(t) ==
  /\ Running(t)
  /\ Top(t).pc = "acquire"
  /\ lock = 0
  /\ lock' = t
  /\ stacks' = SetTop(t, [Top(t) EXCEPT !.pc = "recheck"])
  /\ UNCHANGED <<instances, returned, OutsideCache>>

\* if cls._instance is None: (under the lock)
Recheck(t) ==
  /\ Running(t)
  /\ Top(t).pc = "recheck"
  /\ stacks' = SetTop(t, [Top(t) EXCEPT !.pc =
                  IF instances[Top(t).cls] = 0 THEN "new" ELSE "release"])
  /\ UNCHANGED <<instances, lock, returned, OutsideCache>>

\* instance = super(...).__new__(cls): object.__new__ in CacheSingleton,
\* CacheSingleton.__new__ in BuildingBlockCache
New(t) ==
  /\ Running(t)
  /\ Top(t).pc = "new"
  /\ IF Top(t).impl = "CacheSingleton"
     THEN LET created == Max({0} \cup { instances[c] : c \in CacheClasses }) + 1
          IN stacks' = SetTop(t, [Top(t) EXCEPT !.instance = created,
                                                !.pc = "assign"])
     ELSE stacks' = [stacks EXCEPT ![t] =
                       Append(SetTop(t, [Top(t) EXCEPT !.pc = "called"])[t],
                              Frame("CacheSingleton", Top(t).cls))]
  /\ UNCHANGED <<instances, lock, returned, OutsideCache>>

\* instance.cache = {}; cls._instance = instance
Assign(t) ==
  /\ Running(t)
  /\ Top(t).pc = "assign"
  /\ instances' = [instances EXCEPT ![Top(t).cls] = Top(t).instance]
  /\ stacks' = SetTop(t, [Top(t) EXCEPT !.pc = "release"])
  /\ UNCHANGED <<lock, returned, OutsideCache>>

\* the end of the with block
Release(t) ==
  /\ Running(t)
  /\ Top(t).pc = "release"
  /\ lock' = 0
  /\ stacks' = SetTop(t, [Top(t) EXCEPT !.pc = "return"])
  /\ UNCHANGED <<instances, returned, OutsideCache>>

\* return cls._instance: to the caller's frame, or to the thread
Return(t) ==
  /\ Running(t)
  /\ Top(t).pc = "return"
  /\ LET value == instances[Top(t).cls]
         rest == SubSeq(stacks[t], 1, Len(stacks[t]) - 1)
     IN IF rest = <<>>
        THEN /\ stacks' = [stacks EXCEPT ![t] = <<>>]
             /\ returned' = [returned EXCEPT ![t] =
                               Append(@, [cls |-> Top(t).cls, instance |-> value])]
        ELSE /\ stacks' = [stacks EXCEPT ![t] =
                             [rest EXCEPT ![Len(rest)].instance = value,
                                          ![Len(rest)].pc = "assign"]]
             /\ returned' = returned
  /\ UNCHANGED <<instances, lock, OutsideCache>>

\* the steps of a call that is under way
Step(t) ==
  \/ Check(t)
  \/ Acquire(t)
  \/ Recheck(t)
  \/ New(t)
  \/ Assign(t)
  \/ Release(t)
  \/ Return(t)

CNext == \E t \in Threads : Call(t) \/ Step(t)

\* every thread that can take a step of its call eventually takes one
SpecCache ==
  /\ CInit
  /\ [][CNext]_vars
  /\ \A t \in Threads : WF_vars(Step(t))

\* C30: every call of BuildingBlockCache() that has begun returns, and all
\* the calls that have returned have returned the same instance.
C30_EveryCallReturnsTheInstance ==
  /\ \A t \in Threads :
       (Running(t) /\ stacks[t][1].cls = "BuildingBlockCache") ~> ~Running(t)
  /\ [](\A t, u \in Threads :
          \A i \in DOMAIN returned[t], j \in DOMAIN returned[u] :
            ( /\ returned[t][i].cls = "BuildingBlockCache"
              /\ returned[u][j].cls = "BuildingBlockCache" )
            => returned[t][i].instance = returned[u][j].instance)

====
